---- MODULE Spec2Model ----
(***************************************************************************)
(* Model of the Server Claude terminal bridge of Kodiack Studio            *)
(* (src/src/index.js, second revision starting at line 331; the same       *)
(* logic appears compacted in src/unnamed/part_000 lines 300-320 and       *)
(* 494-506).                                                               *)
(*                                                                         *)
(* JavaScript runs handlers to completion: an action below is one          *)
(* synchronous segment of code (a tool call up to its first await, a       *)
(* socket event handler, a timer callback) together with the promise       *)
(* continuations it releases, which run as microtasks before any other     *)
(* event is serviced.                                                      *)
(*                                                                         *)
(* Text is kept run-length encoded: a string is a sequence of runs         *)
(* [c |-> character, n |-> repetitions], adjacent runs having different    *)
(* characters.  This keeps the real buffer limits (50000 / 30000)          *)
(* checkable.                                                              *)
(***************************************************************************)
EXTENDS Integers, Sequences, FiniteSets, TLC

\* ------------------------------------------------------------------ bounds
NumCalls == 2
MaxSockets == 2
MaxEvents == 5
BulkLen == 25000
MaxBufLen == 4
MaxLines == 3
MaxScrubLen == 4
MaxHistory == 2
MaxFlights == 2
MaxWatcherSteps == 6

\* ------------------------------------------------------- program constants
\* serverClaudeBuffer.length > 50000
S_max == 50000
\* serverClaudeBuffer.slice(-30000)
S_trunc == 30000
\* setTimeout(..., 10000) in connectToServerClaude
ConnectTimeoutMs == 10000
\* waitMs || 5000
DefaultWaitMs == 5000

ESC == "ESC"
BEL == "BEL"
NL == "NL"
CR == "CR"

\* ------------------------------------------------------------ text (RLE)
EmptyStr == << >>

Run(ch, k) == IF k > 0 THEN << [c |-> ch, n |-> k] >> ELSE << >>

\* s.length: the runs' lengths, summed by halves
StrLen(s) ==
  LET RECURSIVE RunsLen(_, _)
      RunsLen(i, j) ==
        IF i > j THEN 0
        ELSE IF i = j THEN s[i].n
        ELSE RunsLen(i, (i + j) \div 2) + RunsLen(((i + j) \div 2) + 1, j)
  IN RunsLen(1, Len(s))

\* s + t
Cat(s, t) ==
  IF s = << >> THEN t
  ELSE IF t = << >> THEN s
  ELSE IF s[Len(s)].c = t[1].c
       THEN SubSeq(s, 1, Len(s) - 1)
            \o << [c |-> t[1].c, n |-> s[Len(s)].n + t[1].n] >>
            \o Tail(t)
       ELSE s \o t

\* the string without its first character
Rest(s) == IF s[1].n > 1 THEN << [c |-> s[1].c, n |-> s[1].n - 1] >> \o Tail(s)
           ELSE Tail(s)

\* the string without its first k characters
RECURSIVE DropChars(_, _)
DropChars(s, k) ==
  IF k <= 0 \/ s = << >> THEN s
  ELSE IF s[1].n <= k THEN DropChars(Tail(s), k - s[1].n)
  ELSE << [c |-> s[1].c, n |-> s[1].n - k] >> \o Tail(s)

\* s.slice(-k) for k > 0
SliceLast(s, k) == DropChars(s, StrLen(s) - k)

IsSuffixOf(a, b) == StrLen(a) <= StrLen(b) /\ SliceLast(b, StrLen(a)) = a

\* a literal, from its characters
Lit(chars) ==
  LET RECURSIVE LitOf(_, _)
      LitOf(i, j) ==
        IF i > j THEN << >>
        ELSE IF i = j THEN Run(chars[i], 1)
        ELSE Cat(LitOf(i, (i + j) \div 2), LitOf(((i + j) \div 2) + 1, j))
  IN LitOf(1, Len(chars))

Digits == {"0", "2", ";"}
Letters == {"a", "b", "m", "K", "x", "r"}

\* ---------------------------------------------------- ANSI stripping
\* [0-9;]*
RECURSIVE SkipParams(_)
SkipParams(s) == IF s # << >> /\ s[1].c \in Digits THEN SkipParams(Tail(s)) ELSE s

\* what follows a match of /\x1b\[[0-9;]*[A-Za-z]/ at the start of s, or "none"
MatchCsi(s) ==
  IF s # << >> /\ s[1].c = ESC /\ Rest(s) # << >> /\ Rest(s)[1].c = "["
  THEN LET p == SkipParams(Rest(Rest(s)))
       IN IF p # << >> /\ p[1].c \in Letters THEN [ok |-> TRUE, rest |-> Rest(p)]
          ELSE [ok |-> FALSE, rest |-> << >>]
  ELSE [ok |-> FALSE, rest |-> << >>]

\* what follows a match of /\x1b\[\?[0-9;]*[a-zA-Z]/ at the start of s
MatchPrivCsi(s) ==
  IF s # << >> /\ s[1].c = ESC /\ Rest(s) # << >> /\ Rest(s)[1].c = "["
     /\ Rest(Rest(s)) # << >> /\ Rest(Rest(s))[1].c = "?"
  THEN LET p == SkipParams(Rest(Rest(Rest(s))))
       IN IF p # << >> /\ p[1].c \in Letters THEN [ok |-> TRUE, rest |-> Rest(p)]
          ELSE [ok |-> FALSE, rest |-> << >>]
  ELSE [ok |-> FALSE, rest |-> << >>]

\* [^\x07]*\x07 : everything up to and including the first BEL
RECURSIVE UpToBel(_)
UpToBel(s) ==
  IF s = << >> THEN [ok |-> FALSE, rest |-> << >>]
  ELSE IF s[1].c = BEL THEN [ok |-> TRUE, rest |-> Rest(s)]
  ELSE UpToBel(Tail(s))

\* what follows a match of /\x1b\][^\x07]*\x07/ at the start of s
MatchOsc(s) ==
  IF s # << >> /\ s[1].c = ESC /\ Rest(s) # << >> /\ Rest(s)[1].c = "]"
  THEN UpToBel(Rest(Rest(s)))
  ELSE [ok |-> FALSE, rest |-> << >>]

\* what follows a match of /\x1b/ at the start of s
MatchEsc(s) ==
  IF s # << >> /\ s[1].c = ESC THEN [ok |-> TRUE, rest |-> Rest(s)]
  ELSE [ok |-> FALSE, rest |-> << >>]

\* s.replace(/re/g, '') for the four expressions, named by kind.  Every
\* match starts with ESC, so a run of another character is copied whole.
Match(kind, s) ==
  CASE kind = "csi" -> MatchCsi(s)
    [] kind = "priv" -> MatchPrivCsi(s)
    [] kind = "osc" -> MatchOsc(s)
    [] OTHER -> MatchEsc(s)

RECURSIVE RemoveAll(_, _)
RemoveAll(kind, s) ==
  IF s = << >> THEN << >>
  ELSE IF s[1].c # ESC THEN Cat(<< s[1] >>, RemoveAll(kind, Tail(s)))
  ELSE LET m == Match(kind, s)
       IN IF m.ok THEN RemoveAll(kind, m.rest)
          ELSE Cat(Run(ESC, 1), RemoveAll(kind, Rest(s)))

\* s.replace(/re/, '') without the g flag: only the first match goes
RECURSIVE RemoveFirst(_, _)
RemoveFirst(kind, s) ==
  IF s = << >> THEN << >>
  ELSE IF s[1].c # ESC THEN Cat(<< s[1] >>, RemoveFirst(kind, Tail(s)))
  ELSE LET m == Match(kind, s)
       IN IF m.ok THEN m.rest
          ELSE Cat(Run(ESC, 1), RemoveFirst(kind, Rest(s)))

\* (mutant) the four expressions lack the g flag
StripAnsi_NotGlobal(s) ==
  RemoveFirst("esc", RemoveFirst("osc", RemoveFirst("priv", RemoveFirst("csi", s))))

\* (mutant) the bare escape characters are removed first
StripAnsi_EscFirst(s) ==
  RemoveAll("osc", RemoveAll("priv", RemoveAll("csi", RemoveAll("esc", s))))

StripAnsi(s) ==
  RemoveAll("esc", RemoveAll("osc", RemoveAll("priv", RemoveAll("csi", s))))


\* split('\n').slice(-lines).join('\n'): the trailing `lines` elements
RECURSIVE CountChar(_, _)
CountChar(s, ch) ==
  IF s = << >> THEN 0
  ELSE (IF s[1].c = ch THEN s[1].n ELSE 0) + CountChar(Tail(s), ch)

\* the string after its k-th newline
RECURSIVE AfterNewlines(_, _)
AfterNewlines(s, k) ==
  IF k <= 0 \/ s = << >> THEN s
  ELSE IF s[1].c # NL THEN AfterNewlines(Tail(s), k)
  ELSE IF s[1].n <= k THEN AfterNewlines(Tail(s), k - s[1].n)
  ELSE << [c |-> NL, n |-> s[1].n - k] >> \o Tail(s)

\* (mutant) one element too many is kept
TailLines_OffByOne(s, lines) == AfterNewlines(s, CountChar(s, NL) - lines)

TailLines(s, lines) == AfterNewlines(s, (CountChar(s, NL) + 1) - lines)

\* ------------------------------------------------------------ the bridge
VARIABLES
  serverClaudeWs,         \* the socket handle, 0 for null
  serverClaudeBuffer,     \* the output buffer
  serverClaudeConnected,  \* the connected flag
  sock,                   \* per socket: "unused", "connecting", "open", "errored", "closed"
  sockPath,               \* per socket: the path= parameter of its URL
  wire,                   \* per socket: the frames handed to its send()
  call,                   \* per tool-call slot: the call in progress
  response,               \* the response returned by the step just taken, if any
  appended,               \* history: what the message handler appended since the last reset
  nEvents                 \* tool calls and socket events so far

\* the watcher process (a program of its own, with its own state)
VARIABLES
  conversationBuffer,     \* entries buffered for the next checkpoint
  lastCheckpoint,         \* time of the last successful checkpoint
  lastSize,               \* how much of the history file has been processed
  historySize,            \* entries the history file holds
  inFlight,               \* uploads awaiting their answer: [messages, final, at]
  stored,                 \* entries the API has accepted
  answers,                \* the uploads answered so far: [messages, outcome, at]
  backedUp,               \* entries written to a local backup file
  running,                \* FALSE once the process has exited
  now                     \* the watcher's clock

watcherVars == << conversationBuffer, lastCheckpoint, lastSize, historySize,
                  inFlight, stored, answers, backedUp, running, now >>

\* the relay for session logging of the compact server
VARIABLES
  chadWs,                 \* the relay socket: "null", or the state it is in
  chadConnected,          \* the relay's connected flag
  chadRetry,              \* a call of connectToChad is due
  chadFrames              \* what became of each log message handed to send()

chadVars == << chadWs, chadConnected, chadRetry, chadFrames >>

bridgeVars == << serverClaudeWs, serverClaudeBuffer, serverClaudeConnected, sock,
                 sockPath, wire, call, response, appended, nEvents,
                 chadWs, chadConnected, chadRetry, chadFrames >>

vars == << serverClaudeWs, serverClaudeBuffer, serverClaudeConnected, sock,
           sockPath, wire, call, response, appended, nEvents,
           conversationBuffer, lastCheckpoint, lastSize, historySize,
           inFlight, stored, answers, backedUp, running, now,
           chadWs, chadConnected, chadRetry, chadFrames >>

\* let chadWs = null, chadConnected = false; main() is about to call connectToChad
ChadStart ==
  /\ chadWs = "null"
  /\ chadConnected = FALSE
  /\ chadRetry = TRUE
  /\ chadFrames = << >>

\* let conversationBuffer = []; let lastCheckpoint = Date.now(); nothing read yet
WatcherStart ==
  /\ conversationBuffer = << >>
  /\ lastCheckpoint = 0
  /\ lastSize = 0
  /\ historySize = 0
  /\ inFlight = << >>
  /\ stored = {}
  /\ answers = << >>
  /\ backedUp = {}
  /\ running = TRUE
  /\ now = 0

Calls == 1..NumCalls
Socks == 1..MaxSockets

DEFAULT_PROJECT == "/var/www/NextBid_Dev/dev-studio-5000"
OtherProject == "/srv/other"

NoArgs == << >>
ConnectArgs == {NoArgs, [project |-> OtherProject]}
SendArgs == {NoArgs, [command |-> ""], [command |-> "ls"],
             [command |-> "pwd", waitMs |-> 10000]}
OutputArgs == {NoArgs, [lines |-> 1]}

Has(args, f) == f \in DOMAIN args

\* a long payload that starts with an erase-line sequence
Bulk == Cat(Lit(<<ESC, "[", "2", "K", "b", NL>>), Run("x", BulkLen - 2))
\* payloads of {"type":"output","data":...} envelopes
OutputData == {Bulk}
\* texts of inbound messages that are not JSON
RawTexts == {Lit(<<ESC, "r">>)}

\* pc: "idle", "awaitConnect" (awaiting connectToServerClaude), "waiting"
\* (awaiting the wait timer).  timer: milliseconds left on the call's armed
\* timer, -1 when none is armed.  dropped: what the call's own buffer reset
\* discarded.  win: what was appended to the buffer since that reset.
IdleCall == [tool |-> "none", args |-> NoArgs, pc |-> "idle", psock |-> 0,
             timer |-> -1, dropped |-> EmptyStr, win |-> EmptyStr]

NoResponse == [slot |-> 0, tool |-> "none", args |-> NoArgs, dropped |-> EmptyStr,
               win |-> EmptyStr,
               res |-> [isError |-> FALSE, text |-> "", detail |-> "", body |-> EmptyStr]]

\* a request arrives and takes the first slot that holds no call in progress
Arrives(c) == /\ call[c].pc = "idle"
              /\ \A d \in 1..(c - 1) : call[d].pc # "idle"

\* sockets created so far (one per new WebSocket(wsUrl))
Dials == Cardinality({s \in Socks : sock[s] # "unused"})

Init ==
  /\ serverClaudeWs = 0
  /\ serverClaudeBuffer = EmptyStr
  /\ serverClaudeConnected = FALSE
  /\ sock = [s \in Socks |-> "unused"]
  /\ sockPath = [s \in Socks |-> ""]
  /\ wire = [s \in Socks |-> << >>]
  /\ call = [c \in Calls |-> IdleCall]
  /\ response = NoResponse
  /\ appended = serverClaudeBuffer
  /\ nEvents = 0
  /\ WatcherStart
  /\ ChadStart

\* ------------------------------------------------------------- responses
OkText(t, d) == [isError |-> FALSE, text |-> t, detail |-> d, body |-> EmptyStr]
OkBody(b) == [isError |-> FALSE, text |-> "", detail |-> "", body |-> b]
\* (mutant) the catch block forgets the error tag
ErrorResponse_Untagged(message) == [isError |-> FALSE, text |-> "Error: ", detail |-> message, body |-> EmptyStr]

\* catch (error) { return { content: [... `Error: ${error.message}`], isError: true } }
ErrorResponse(message) == [isError |-> TRUE, text |-> "Error: ", detail |-> message, body |-> EmptyStr]

\* the handler returns r for the call (tool, args) of slot c
Respond(c, tool, args, w, r) ==
  [slot |-> c, tool |-> tool, args |-> args, dropped |-> call[c].dropped, win |-> w, res |-> r]

\* (mutant) the flag is tested the wrong way round
LiveConnection_Inverted == serverClaudeWs # 0 /\ ~serverClaudeConnected

\* if (serverClaudeWs && serverClaudeConnected) { resolve(true); return; }
LiveConnection == serverClaudeWs # 0 /\ serverClaudeConnected

\* (mutant) the buffer is returned without the fallback
SendResult_Raw(buf) == OkBody(buf)

\* serverClaudeBuffer || '(no output yet - server Claude may still be processing)'
SendResult(buf) == IF buf = EmptyStr THEN OkText("(no output yet - server Claude may still be processing)", "")
                   ELSE OkBody(buf)

\* (mutant) the wait promise is created without a timer
WaitOf_Unarmed(args) == -1

\* const wait = waitMs || 5000
WaitOf(args) == IF Has(args, "waitMs") /\ args.waitMs # 0 THEN args.waitMs ELSE DefaultWaitMs

\* outcomes of serverClaudeWs.send(...) given the sockets' states: a null
\* handle raises a TypeError, a socket still CONNECTING makes send() throw,
\* an OPEN socket takes the frame; on a CLOSING socket the library either
\* throws or takes and discards the frame, depending on its version
WriteOutcomes(ws, socks) ==
  IF ws = 0 THEN {"TypeError"}
  ELSE CASE socks[ws] = "open" -> {"ok"}
         [] socks[ws] = "errored" -> {"ok", "NotOpen"}
         [] OTHER -> {"NotOpen"}

\* (mutant) the carriage return is written before the command
InputFrames_Swapped(command) == << [type |-> "input", data |-> CR],
                                   [type |-> "input", data |-> command] >>

\* serverClaudeWs.send(JSON.stringify({ type: 'input', data: command })); then data: '\r'
InputFrames(command) == << [type |-> "input", data |-> command],
                           [type |-> "input", data |-> CR] >>

\* ------------------------------------------------------ inbound messages
Messages == [kind : {"output"}, text : OutputData]
            \cup [kind : {"raw"}, text : RawTexts]

\* the text a message adds: the stripped payload of an output envelope, the
\* raw text of a message that is not JSON
Appended(m) ==
  CASE m.kind = "output" -> StripAnsi(m.text)
    [] m.kind = "raw" -> m.text
    [] m.kind \in {"null", "badOutput"} -> m.text
    [] OTHER -> EmptyStr

\* (mutant) the buffer is cut back to the limit itself
Truncate_ToMax(buf) == IF StrLen(buf) > S_max THEN SliceLast(buf, S_max) ELSE buf

\* if (serverClaudeBuffer.length > 50000) serverClaudeBuffer = serverClaudeBuffer.slice(-30000)
Truncate(buf) == IF StrLen(buf) > S_max THEN SliceLast(buf, S_trunc) ELSE buf

\* (mutant) the fallback scrubs the raw text like an output payload
OnMessage_ScrubRaw(buf, m) ==
  CASE m.kind = "output" -> Truncate(Cat(buf, StripAnsi(m.text)))
    [] m.kind = "raw" -> Cat(buf, StripAnsi(m.text))
    [] OTHER -> buf

\* (mutant) a chunk is put in front of what the buffer holds
OnMessage_Prepend(buf, m) ==
  CASE m.kind = "output" -> Truncate(Cat(StripAnsi(m.text), buf))
    [] m.kind = "raw" -> Cat(m.text, buf)
    [] OTHER -> buf

\* (mutant) an output payload is appended as it came
OnMessage_Unscrubbed(buf, m) ==
  CASE m.kind = "output" -> Truncate(Cat(buf, m.text))
    [] m.kind = "raw" -> Cat(buf, m.text)
    [] OTHER -> buf

\* (mutant) every message that is not an output envelope is appended raw
OnMessage_RawUnlessOutput(buf, m) ==
  CASE m.kind = "output" -> Truncate(Cat(buf, StripAnsi(m.text)))
    [] OTHER -> Cat(buf, m.text)

\* the handling of a parsed message throws: null has no property `type`,
\* and data that is not text has no method `replace`
HandlingThrows(m) == m.kind \in {"null", "badOutput"}

\* serverClaudeWs.on('message', ...): the buffer after the handler.  Kinds:
\* "output" an output envelope with text data (text is the data), "raw" not
\* JSON, "null" the JSON null, "badOutput" an output envelope whose data is
\* not text, "other" and "scalar" any other JSON (text is the frame's text)
OnMessage(buf, m) ==
  CASE m.kind = "output" -> Truncate(Cat(buf, StripAnsi(m.text)))
    [] m.kind = "raw" -> Cat(buf, m.text)
    [] HandlingThrows(m) -> Cat(buf, m.text)
    [] OTHER -> buf

\* --------------------------------------------------------------- actions
\* one more input from outside: a tool call or a socket event
Event == /\ nEvents < MaxEvents
         /\ nEvents' = nEvents + 1
         /\ UNCHANGED << watcherVars, chadVars >>

\* (mutant) the callback runs while the delay is still running
TimerDue_Early(c) == call[c].timer >= 0

\* a setTimeout callback runs once its delay has run down
TimerDue(c) == call[c].timer = 0

\* (mutant) the buffer is not cleared before the command is written
ClearedBuffer_Kept(buf) == buf

\* serverClaudeBuffer = '' before the command is written
ClearedBuffer(buf) == EmptyStr

\* (mutant) a dial leaves the buffer as it is
Dial_KeepsBuffer(c, tool, args, path) ==
  LET s == Dials + 1 IN
  /\ Dials < MaxSockets
  /\ serverClaudeWs' = s
  /\ UNCHANGED << serverClaudeBuffer, appended >>
  /\ sock' = [sock EXCEPT ![s] = "connecting"]
  /\ sockPath' = [sockPath EXCEPT ![s] = path]
  /\ call' = [call EXCEPT ![c] = [IdleCall EXCEPT !.tool = tool, !.args = args,
                                   !.pc = "awaitConnect", !.psock = s,
                                   !.timer = ConnectTimeoutMs,
                                   !.dropped = serverClaudeBuffer]]
  /\ response' = NoResponse

\* new WebSocket(wsUrl); serverClaudeBuffer = ''; handlers; setTimeout(.., 10000)
Dial(c, tool, args, path) ==
  LET s == Dials + 1 IN
  /\ Dials < MaxSockets
  /\ serverClaudeWs' = s
  /\ serverClaudeBuffer' = EmptyStr
  /\ appended' = EmptyStr
  /\ sock' = [sock EXCEPT ![s] = "connecting"]
  /\ sockPath' = [sockPath EXCEPT ![s] = path]
  /\ call' = [call EXCEPT ![c] = [IdleCall EXCEPT !.tool = tool, !.args = args,
                                   !.pc = "awaitConnect", !.psock = s,
                                   !.timer = ConnectTimeoutMs,
                                   !.dropped = serverClaudeBuffer]]
  /\ response' = NoResponse

\* (mutant) a send() that throws is answered by dialling again
Write_Redial(c, args, o) ==
  /\ serverClaudeBuffer' = ClearedBuffer(serverClaudeBuffer)
  /\ appended' = EmptyStr
  /\ IF o = "ok"
     THEN /\ wire' = [wire EXCEPT ![serverClaudeWs] = @ \o InputFrames(args.command)]
          /\ call' = [call EXCEPT ![c] = [IdleCall EXCEPT !.tool = "send", !.args = args,
                                           !.pc = "waiting", !.timer = WaitOf(args),
                                           !.dropped = serverClaudeBuffer]]
          /\ response' = NoResponse
     ELSE /\ wire' = wire
          /\ call' = [call EXCEPT ![c] = [IdleCall EXCEPT !.tool = "send", !.args = args,
                                           !.pc = "awaitConnect", !.psock = serverClaudeWs,
                                           !.timer = ConnectTimeoutMs]]
          /\ response' = NoResponse

\* clear the buffer, write the two frames, start the wait; a throwing
\* send() lands in the handler's catch
Write(c, args, o) ==
  /\ serverClaudeBuffer' = ClearedBuffer(serverClaudeBuffer)
  /\ appended' = EmptyStr
  /\ IF o = "ok"
     THEN /\ wire' = [wire EXCEPT ![serverClaudeWs] = @ \o InputFrames(args.command)]
          /\ call' = [call EXCEPT ![c] = [IdleCall EXCEPT !.tool = "send", !.args = args,
                                           !.pc = "waiting", !.timer = WaitOf(args),
                                           !.dropped = serverClaudeBuffer]]
          /\ response' = NoResponse
     ELSE /\ wire' = wire
          /\ call' = [call EXCEPT ![c] = IdleCall]
          /\ response' = [Respond(c, "send", args, EmptyStr, ErrorResponse(o))
                            EXCEPT !.dropped = serverClaudeBuffer]

\* case 'server_claude_connect'
CallConnect(c, args) ==
  LET project == IF Has(args, "project") THEN args.project ELSE DEFAULT_PROJECT IN
  /\ Arrives(c)
  /\ Event
  /\ IF LiveConnection
     THEN /\ response' = Respond(c, "connect", args, EmptyStr,
                            OkText("Connected to server Claude for project ", project))
          /\ UNCHANGED << serverClaudeWs, serverClaudeBuffer, appended, sock, sockPath, call >>
     ELSE Dial(c, "connect", args, project)
  /\ UNCHANGED << serverClaudeConnected, wire >>

\* (mutant) the buffer is cleared before the command is looked at
CallSend_ResetFirst(c, args) ==
  /\ Arrives(c)
  /\ Event
  /\ IF ~(Has(args, "command") /\ args.command # "")
     THEN /\ response' = Respond(c, "send", args, EmptyStr, ErrorResponse("command is required"))
          /\ serverClaudeBuffer' = EmptyStr
          /\ appended' = EmptyStr
          /\ UNCHANGED << serverClaudeWs, sock, sockPath, wire, call >>
     ELSE /\ IF ~serverClaudeConnected
             THEN /\ Dial(c, "send", args, DEFAULT_PROJECT)
                  /\ UNCHANGED wire
             ELSE /\ \E o \in WriteOutcomes(serverClaudeWs, sock) : Write(c, args, o)
                  /\ UNCHANGED << serverClaudeWs, sock, sockPath >>
  /\ UNCHANGED << serverClaudeConnected >>

\* case 'server_claude_send'
CallSend(c, args) ==
  /\ Arrives(c)
  /\ Event
  /\ IF ~(Has(args, "command") /\ args.command # "")
     THEN /\ response' = Respond(c, "send", args, EmptyStr, ErrorResponse("command is required"))
          /\ UNCHANGED << serverClaudeWs, serverClaudeBuffer, appended, sock, sockPath, wire, call >>
     ELSE /\ IF ~serverClaudeConnected
             THEN /\ Dial(c, "send", args, DEFAULT_PROJECT)
                  /\ UNCHANGED wire
             ELSE /\ \E o \in WriteOutcomes(serverClaudeWs, sock) : Write(c, args, o)
                  /\ UNCHANGED << serverClaudeWs, sock, sockPath >>
  /\ UNCHANGED << serverClaudeConnected >>

\* (mutant) reading the output drains the buffer
CallOutput_Draining(c, args) ==
  /\ Arrives(c)
  /\ Event
  /\ response' = Respond(c, "output", args, EmptyStr,
                    IF serverClaudeBuffer = EmptyStr THEN OkText("(buffer empty)", "")
                    ELSE OkBody(serverClaudeBuffer))
  /\ serverClaudeBuffer' = EmptyStr
  /\ UNCHANGED << serverClaudeWs, serverClaudeConnected, sock, sockPath, wire, call, appended >>

\* case 'server_claude_output'
CallOutput(c, args) ==
  LET output == IF Has(args, "lines") /\ args.lines > 0
                THEN TailLines(serverClaudeBuffer, args.lines)
                ELSE serverClaudeBuffer IN
  /\ Arrives(c)
  /\ Event
  /\ response' = Respond(c, "output", args, EmptyStr,
                    IF output = EmptyStr THEN OkText("(buffer empty)", "") ELSE OkBody(output))
  /\ UNCHANGED << serverClaudeWs, serverClaudeBuffer, serverClaudeConnected, sock,
                  sockPath, wire, call, appended >>

\* case 'server_claude_status'
CallStatus(c) ==
  /\ Arrives(c)
  /\ Event
  /\ response' = Respond(c, "status", NoArgs, EmptyStr,
                    [isError |-> FALSE, text |-> "status", detail |-> "", body |-> EmptyStr,
                     connected |-> serverClaudeConnected,
                     bufferSize |-> StrLen(serverClaudeBuffer)])
  /\ UNCHANGED << serverClaudeWs, serverClaudeBuffer, serverClaudeConnected, sock,
                  sockPath, wire, call, appended >>

\* default: throw new Error(`Unknown tool: ${name}`)
CallUnknown(c) ==
  /\ Arrives(c)
  /\ Event
  /\ response' = Respond(c, "bogus_tool", NoArgs, EmptyStr,
                    ErrorResponse("Unknown tool: bogus_tool"))
  /\ UNCHANGED << serverClaudeWs, serverClaudeBuffer, serverClaudeConnected, sock,
                  sockPath, wire, call, appended >>

\* the call awaiting the connect promise made for socket s
Awaiting(s) == {c \in Calls : call[c].pc = "awaitConnect" /\ call[c].psock = s}

\* serverClaudeWs.on('open', ...): set the flag, resolve; the awaiting call resumes
SocketOpen(s) ==
  /\ Event
  /\ sock[s] = "connecting"
  /\ sock' = [sock EXCEPT ![s] = "open"]
  /\ serverClaudeConnected' = TRUE
  /\ IF Awaiting(s) = {}
     THEN /\ response' = NoResponse
          /\ UNCHANGED << serverClaudeBuffer, appended, wire, call >>
     ELSE LET c == CHOOSE c \in Awaiting(s) : TRUE IN
          IF call[c].tool = "connect"
          THEN /\ call' = [call EXCEPT ![c] = IdleCall]
               /\ response' = Respond(c, "connect", call[c].args, EmptyStr,
                                 OkText("Connected to server Claude for project ",
                                        IF Has(call[c].args, "project") THEN call[c].args.project
                                        ELSE DEFAULT_PROJECT))
               /\ UNCHANGED << serverClaudeBuffer, appended, wire >>
          ELSE \E o \in WriteOutcomes(serverClaudeWs, sock') : Write(c, call[c].args, o)
  /\ UNCHANGED << serverClaudeWs, sockPath >>

\* a failed handshake: 'error' immediately followed by 'close'
ConnectFail(s) ==
  /\ Event
  /\ sock[s] = "connecting"
  /\ sock' = [sock EXCEPT ![s] = "closed"]
  /\ serverClaudeConnected' = FALSE
  /\ serverClaudeWs' = 0
  /\ IF Awaiting(s) = {}
     THEN /\ response' = NoResponse
          /\ UNCHANGED call
     ELSE LET c == CHOOSE c \in Awaiting(s) : TRUE IN
          /\ call' = [call EXCEPT ![c] = IdleCall]
          /\ response' = Respond(c, call[c].tool, call[c].args, EmptyStr,
                                 ErrorResponse("connect ECONNREFUSED"))
  /\ UNCHANGED << serverClaudeBuffer, appended, sockPath, wire >>

\* serverClaudeWs.on('error', ...) on an established socket
SocketError(s) ==
  /\ Event
  /\ sock[s] = "open"
  /\ sock' = [sock EXCEPT ![s] = "errored"]
  /\ serverClaudeConnected' = FALSE
  /\ response' = NoResponse
  /\ UNCHANGED << serverClaudeWs, serverClaudeBuffer, appended, sockPath, wire, call >>

\* (mutant) the close handler dials again by itself
SocketClose_Redial(s) ==
  /\ Event
  /\ sock[s] \in {"open", "errored"}
  /\ Dials < MaxSockets
  /\ sock' = [sock EXCEPT ![s] = "closed", ![Dials + 1] = "connecting"]
  /\ sockPath' = [sockPath EXCEPT ![Dials + 1] = sockPath[s]]
  /\ serverClaudeConnected' = FALSE
  /\ serverClaudeWs' = Dials + 1
  /\ serverClaudeBuffer' = EmptyStr
  /\ appended' = EmptyStr
  /\ response' = NoResponse
  /\ UNCHANGED << wire, call >>

\* (mutant) the close handler also empties the buffer
SocketClose_ClearsBuffer(s) ==
  /\ Event
  /\ sock[s] \in {"open", "errored"}
  /\ sock' = [sock EXCEPT ![s] = "closed"]
  /\ serverClaudeConnected' = FALSE
  /\ serverClaudeWs' = 0
  /\ serverClaudeBuffer' = EmptyStr
  /\ response' = NoResponse
  /\ UNCHANGED << appended, sockPath, wire, call >>

\* serverClaudeWs.on('close', ...)
SocketClose(s) ==
  /\ Event
  /\ sock[s] \in {"open", "errored"}
  /\ sock' = [sock EXCEPT ![s] = "closed"]
  /\ serverClaudeConnected' = FALSE
  /\ serverClaudeWs' = 0
  /\ response' = NoResponse
  /\ UNCHANGED << serverClaudeBuffer, appended, sockPath, wire, call >>

\* serverClaudeWs.on('message', ...)
SocketMessage(s, m) ==
  /\ sock[s] = "open"
  /\ Event
  /\ serverClaudeBuffer' = OnMessage(serverClaudeBuffer, m)
  /\ appended' = Cat(appended, Appended(m))
  /\ call' = [c \in Calls |-> IF call[c].pc = "waiting"
                              THEN [call[c] EXCEPT !.win = Cat(@, Appended(m))]
                              ELSE call[c]]
  /\ response' = NoResponse
  /\ UNCHANGED << serverClaudeWs, serverClaudeConnected, sock, sockPath, wire >>

\* setTimeout(() => { if (!serverClaudeConnected) reject(new Error('Connection timeout')) }, 10000)
ConnectTimer(c) ==
  /\ call[c].pc = "awaitConnect"
  /\ TimerDue(c)
  /\ IF ~serverClaudeConnected
     THEN /\ call' = [call EXCEPT ![c] = IdleCall]
          /\ response' = Respond(c, call[c].tool, call[c].args, EmptyStr,
                                 ErrorResponse("Connection timeout"))
     ELSE /\ call' = [call EXCEPT ![c].timer = -1]
          /\ response' = NoResponse
  /\ UNCHANGED << serverClaudeWs, serverClaudeBuffer, serverClaudeConnected, sock,
                  sockPath, wire, appended, nEvents, watcherVars, chadVars >>

\* (mutant) each send returns what arrived in its own window
WaitTimer_OwnWindow(c) ==
  /\ call[c].pc = "waiting"
  /\ TimerDue(c)
  /\ call' = [call EXCEPT ![c] = IdleCall]
  /\ response' = Respond(c, "send", call[c].args, call[c].win, SendResult(call[c].win))
  /\ UNCHANGED << serverClaudeWs, serverClaudeBuffer, serverClaudeConnected, sock,
                  sockPath, wire, appended, nEvents, watcherVars, chadVars >>

\* await new Promise(resolve => setTimeout(resolve, wait)); return the buffer
WaitTimer(c) ==
  /\ call[c].pc = "waiting"
  /\ TimerDue(c)
  /\ call' = [call EXCEPT ![c] = IdleCall]
  /\ response' = Respond(c, "send", call[c].args, call[c].win, SendResult(serverClaudeBuffer))
  /\ UNCHANGED << serverClaudeWs, serverClaudeBuffer, serverClaudeConnected, sock,
                  sockPath, wire, appended, nEvents, watcherVars, chadVars >>

\* time passes up to the next timer deadline
Armed == {c \in Calls : call[c].timer >= 0}

Tick ==
  /\ Armed # {}
  /\ \A c \in Armed : call[c].timer > 0
  /\ LET d == CHOOSE d \in {call[c].timer : c \in Armed} :
                  \A c \in Armed : d <= call[c].timer IN
     call' = [c \in Calls |-> IF c \in Armed
                              THEN [call[c] EXCEPT !.timer = @ - d]
                              ELSE call[c]]
  /\ response' = NoResponse
  /\ UNCHANGED << serverClaudeWs, serverClaudeBuffer, serverClaudeConnected, sock,
                  sockPath, wire, appended, nEvents, watcherVars, chadVars >>

Next ==
  \/ \E c \in Calls, a \in ConnectArgs : CallConnect(c, a)
  \/ \E c \in Calls, a \in SendArgs : CallSend(c, a)
  \/ \E c \in Calls, a \in OutputArgs : CallOutput(c, a)
  \/ \E c \in Calls : CallStatus(c)
  \/ \E c \in Calls : CallUnknown(c)
  \/ \E s \in Socks : SocketOpen(s)
  \/ \E s \in Socks : ConnectFail(s)
  \/ \E s \in Socks : SocketError(s)
  \/ \E s \in Socks : SocketClose(s)
  \/ \E s \in Socks, m \in Messages : SocketMessage(s, m)
  \/ \E c \in Calls : ConnectTimer(c)
  \/ \E c \in Calls : WaitTimer(c)
  \/ Tick

Spec == Init /\ [][Next]_vars


\* timers fire and handlers run; the remote end owes the bridge nothing
FairSpec ==
  /\ Spec
  /\ WF_vars(Tick)
  /\ \A c \in Calls : WF_vars(ConnectTimer(c)) /\ WF_vars(WaitTimer(c))

\* ----------------------------------------------------------------- claims
LiveSockets == {s \in Socks : sock[s] \in {"connecting", "open", "errored"}}

\* C1: in every reachable state the output buffer holds at most S_max
\* (50000) characters.
C1_BufferBounded == StrLen(serverClaudeBuffer) <= S_max

\* C2: at most one socket is in a non-closed state at any time; a connect or
\* send call made while a dialled socket is connecting or connected opens no
\* second one.
C2_OneLiveSocket == Cardinality(LiveSockets) <= 1

\* a connect call arrives in this step
ConnectArrives ==
  \/ response'.tool = "connect" /\ call' = call
  \/ \E c \in Calls : call[c].pc = "idle" /\ call'[c].pc = "awaitConnect"
                         /\ call'[c].tool = "connect"

\* C3: a connect call made while connected (handle present, flag set), with
\* the same or another target path, is answered at once with success, dials
\* nothing (the number of sockets created stays the same) and leaves the
\* socket handle, the sockets, their targets and the buffer unchanged.
C3_ReuseLiveConnection ==
  [][ (serverClaudeWs # 0 /\ serverClaudeConnected /\ ConnectArrives)
      => /\ response'.tool = "connect"
         /\ ~response'.res.isError
         /\ call' = call
         /\ Cardinality({s \in Socks : sock'[s] # "unused"})
              = Cardinality({s \in Socks : sock[s] # "unused"})
         /\ serverClaudeWs' = serverClaudeWs
         /\ serverClaudeConnected' = serverClaudeConnected
         /\ sock' = sock
         /\ sockPath' = sockPath
         /\ serverClaudeBuffer' = serverClaudeBuffer ]_vars

\* a connect call for another target was answered with success by the one
\* socket ever dialled, which keeps its own target
C3_Witness ==
  /\ response.tool = "connect"
  /\ ~response.res.isError
  /\ serverClaudeWs = 1
  /\ serverClaudeConnected
  /\ sock = [s \in Socks |-> IF s = 1 THEN "open" ELSE "unused"]
  /\ response.res.detail # sockPath[1]


\* slot c is answered in this step with the error message msg
FailsWith(c, msg) ==
  /\ call'[c].pc = "idle"
  /\ response'.slot = c
  /\ response'.res.isError
  /\ response'.res.detail = msg

\* C4: a call that dialled fails with ConnectTimeout when, and only when, its
\* 10000 ms deadline is reached with neither open nor error on its socket;
\* it fails with ConnectError at once when the socket errors first, and
\* resolves when the socket opens first.
C4_ConnectOutcome ==
  [][ \A c \in Calls :
        call[c].pc = "awaitConnect" =>
          LET s == call[c].psock IN
          \* the deadline passes and the socket is still silent
          /\ (call[c].timer = 0 /\ call'[c] # call[c] /\ sock[s] = "connecting"
              /\ sock'[s] = "connecting")
               => FailsWith(c, "Connection timeout")
          \* no timeout before the deadline
          /\ FailsWith(c, "Connection timeout") => call[c].timer = 0
          \* error first
          /\ (sock[s] = "connecting" /\ sock'[s] = "closed")
               => FailsWith(c, "connect ECONNREFUSED")
          \* open first
          /\ (sock[s] = "connecting" /\ sock'[s] = "open")
               => call'[c].pc # "awaitConnect" ]_vars

\* C5: every tool call eventually returns a response, also when several
\* connect/send calls are issued while a dial is pending.
C5_CallsReturn == \A c \in Calls : (call[c].pc # "idle") ~> (call[c].pc = "idle")

\* the failures a tool call can raise, by message
FailureMessages == {"Connection timeout", "connect ECONNREFUSED", "TypeError", "NotOpen",
                    "command is required", "Unknown tool: bogus_tool"}

\* C6: every failure raised while handling a tool call comes back as a
\* response tagged as an error that carries the failure's message: a call
\* with no mapped tool name, a send without command, a refused or timed-out
\* connect, a write on a missing or unusable socket; and a call never ends
\* without a response.
C6_FailuresAreTagged ==
  [][ /\ \A c \in Calls :
           \* a call in progress ends only by being answered
           /\ (call[c].pc # "idle" /\ call'[c].pc = "idle") => response'.slot = c
           \* the awaited socket errors
           /\ (call[c].pc = "awaitConnect" /\ sock[call[c].psock] = "connecting"
               /\ sock'[call[c].psock] = "closed")
                => FailsWith(c, "connect ECONNREFUSED")
           \* the connect promise is rejected by the timer
           /\ (call[c].pc = "awaitConnect" /\ call'[c].pc = "idle"
               /\ sock'[call[c].psock] = "connecting")
                => FailsWith(c, "Connection timeout")
           \* the awaited socket opens but the send cannot write
           /\ (call[c].pc = "awaitConnect" /\ call[c].tool = "send"
               /\ sock[call[c].psock] = "connecting" /\ sock'[call[c].psock] = "open"
               /\ call'[c].pc # "waiting")
                => /\ response'.res.isError
                   /\ response'.slot = c
                   /\ response'.res.detail \in {"TypeError", "NotOpen"}
      /\ response'.tool = "bogus_tool"
           => response'.res.isError /\ response'.res.detail = "Unknown tool: bogus_tool"
      /\ (response'.tool = "send"
          /\ ("command" \notin DOMAIN response'.args \/ response'.args.command = ""))
           => response'.res.isError /\ response'.res.detail = "command is required"
      \* a send arriving while the flag is set and the handle is null
      /\ (call' = call /\ response'.tool = "send"
          /\ "command" \in DOMAIN response'.args /\ response'.args.command # ""
          /\ serverClaudeWs = 0)
           => response'.res.isError /\ response'.res.detail = "TypeError"
      /\ response'.res.isError
           => response'.res.text = "Error: " /\ response'.res.detail \in FailureMessages
    ]_vars

\* a send resumed by the open of its own socket after another socket's
\* close had cleared the handle: the write fails and the failure is
\* returned as a tagged error
C6_Witness ==
  /\ response.tool = "send"
  /\ response.res.isError
  /\ response.res.detail = "TypeError"
  /\ serverClaudeConnected

\* the connect attempt on s has failed by timeout: s is still connecting and
\* no call awaits it any more
TimedOut(s) == sock[s] = "connecting" /\ \A c \in Calls : ~(call[c].pc = "awaitConnect" /\ call[c].psock = s)

\* C7: when a connect attempt fails the session is disconnected; no later
\* event of the failed attempt's socket makes it connected; a later call
\* that dials opens a fresh socket.
C7_FailedAttemptStaysDown ==
  [][ /\ \A c \in Calls :
           (call[c].pc = "awaitConnect"
            /\ (FailsWith(c, "Connection timeout") \/ FailsWith(c, "connect ECONNREFUSED")))
             => ~serverClaudeConnected'
      /\ \A s \in Socks :
           (TimedOut(s) /\ sock'[s] # sock[s] /\ ~serverClaudeConnected)
             => ~serverClaudeConnected'
      /\ \A s \in Socks :
           (sock[s] # "connecting" /\ sock'[s] = "connecting") => sock[s] = "unused"
    ]_vars


\* C8: the result of a send holds only output appended after that send's own
\* buffer reset: it is a suffix of what arrived since the reset, so nothing
\* from an earlier send's window or from before it appears in it.
C8_OnlyOwnWindow ==
  (response.tool = "send" /\ ~response.res.isError)
    => IsSuffixOf(response.res.body, response.win)

\* a second send on the same socket, whose reset discarded output that had
\* arrived before it, returned exactly the output of its own window
C8_Witness ==
  /\ response.tool = "send"
  /\ ~response.res.isError
  /\ Len(wire[1]) = 4
  /\ response.dropped # EmptyStr
  /\ response.res.body # EmptyStr
  /\ response.res.body = response.win
  /\ \A c \in Calls : call[c].pc = "idle"

\* C9: a send that reaches the write step hands exactly two frames to the
\* current socket in one uninterrupted step, the command verbatim and then a
\* carriage return, with the buffer just cleared and the wait starting only
\* then; frames are written by nothing else.
C9_TwoFramesInOrder ==
  [][ /\ wire' # wire
        => \E c \in Calls :
             /\ call[c].pc # "waiting"
             /\ call'[c].pc = "waiting"
             /\ call'[c].tool = "send"
             /\ serverClaudeWs # 0
             /\ wire' = [wire EXCEPT ![serverClaudeWs] =
                           @ \o << [type |-> "input", data |-> call'[c].args.command],
                                   [type |-> "input", data |-> CR] >>]
             /\ serverClaudeBuffer' = EmptyStr
             /\ call'[c].timer > 0
      /\ \A c \in Calls :
           (call[c].pc # "waiting" /\ call'[c].pc = "waiting") => wire' # wire
    ]_vars

\* two sends overlap, both have written, and the socket holds their four
\* frames pair by pair
C9_Witness ==
  /\ \A c \in Calls : call[c].pc = "waiting"
  /\ \E s \in Socks : /\ Len(wire[s]) = 4
                      /\ wire[s][1].data # wire[s][3].data

\* C10: a send returns only when its wait timer has run down: the wait starts
\* at the supplied waitMs (5000 when none is supplied), is shortened only by
\* time passing, and neither output nor a socket close or error ends it.
C10_NoEarlyReturn ==
  [][ \A c \in Calls :
        /\ (call[c].pc # "waiting" /\ call'[c].pc = "waiting")
             => call'[c].timer = IF "waitMs" \in DOMAIN call'[c].args /\ call'[c].args.waitMs > 0
                                 THEN call'[c].args.waitMs ELSE 5000
        /\ (call[c].pc = "waiting" /\ call'[c].pc # "waiting")
             => /\ call[c].timer = 0
                /\ response'.slot = c
                /\ response'.tool = "send"
                /\ ~response'.res.isError
        /\ (call[c].pc = "waiting" /\ call'[c].pc = "waiting" /\ call'[c].timer # call[c].timer)
             => LET d == call[c].timer - call'[c].timer IN
                /\ d > 0
                /\ \A e \in Calls : call[e].timer >= 0 => call'[e].timer = call[e].timer - d
    ]_vars

\* output arrived and the socket closed during the window, and the send
\* returned the output only afterwards
C10_Witness ==
  /\ response.tool = "send"
  /\ ~response.res.isError
  /\ response.res.body # EmptyStr
  /\ serverClaudeWs = 0
  /\ ~serverClaudeConnected

\* C11: once a send has written its two frames (it is waiting), it returns:
\* the wait window always ends, whether output keeps arriving or the socket
\* closes during the window.
C11_WindowCloses == \A c \in Calls : (call[c].pc = "waiting") ~> (call[c].pc = "idle")

\* a send wrote its frames on socket 1, the socket closed during the window
\* without output, and the send returned
C11_Witness ==
  /\ response.tool = "send"
  /\ ~response.res.isError
  /\ Len(wire[1]) = 2
  /\ sock[1] = "closed"
  /\ response.win = EmptyStr

\* C12: a send that ends its wait returns the no-output sentinel exactly when
\* the buffer is empty at that moment, and the buffer's contents verbatim
\* otherwise; the returned text is never empty.
C12_SentinelIffEmpty ==
  [][ \A c \in Calls :
        (call[c].pc = "waiting" /\ call'[c].pc = "idle")
          => /\ response'.slot = c
             /\ ~response'.res.isError
             /\ (serverClaudeBuffer = EmptyStr)
                  <=> (response'.res.text
                         = "(no output yet - server Claude may still be processing)")
             /\ (serverClaudeBuffer = EmptyStr) => response'.res.body = EmptyStr
             /\ (serverClaudeBuffer # EmptyStr)
                  => response'.res.text = "" /\ response'.res.body = serverClaudeBuffer
             /\ ~(response'.res.text = "" /\ response'.res.body = EmptyStr)
    ]_vars

\* on a connection that stayed open, a send's window brought no output and
\* the send returned the sentinel
C12_Witness ==
  /\ response.tool = "send"
  /\ response.res.text = "(no output yet - server Claude may still be processing)"
  /\ response.win = EmptyStr
  /\ serverClaudeBuffer = EmptyStr
  /\ serverClaudeConnected
  /\ serverClaudeWs # 0 /\ sock[serverClaudeWs] = "open"

\* C13: the delivery of a message that is not JSON appends the message's
\* text to the buffer character for character (escape characters included),
\* answers no call with an error, ends no call, and leaves the connected
\* flag, the handle and the sockets as they were.
C13_RawAppendedVerbatim ==
  [][ \A s \in Socks : \A m \in Messages :
        (m.kind = "raw" /\ SocketMessage(s, m))
          => /\ serverClaudeBuffer' = Cat(serverClaudeBuffer, m.text)
             /\ StrLen(serverClaudeBuffer') = StrLen(serverClaudeBuffer) + StrLen(m.text)
             /\ ~response'.res.isError
             /\ response'.slot = 0
             /\ \A c \in Calls : call'[c].pc = call[c].pc
             /\ serverClaudeConnected' = serverClaudeConnected
             /\ serverClaudeWs' = serverClaudeWs
             /\ sock' = sock
    ]_vars

\* after scrubbed output, a non-JSON message holding an escape character was
\* delivered: the buffer ends with it, escape character included
C13_Witness ==
  /\ serverClaudeConnected
  /\ StrLen(serverClaudeBuffer) > 2
  /\ IsSuffixOf(Lit(<<ESC, "r">>), serverClaudeBuffer)
  /\ CountChar(serverClaudeBuffer, ESC) = 1

\* socket s, the last one dialled, carried the current connection (it opened
\* and a send wrote on it), has closed, and nothing has been dialled since:
\* the connection's close is the only close so far and it cleared the handle
ClosedConnection(s) ==
  /\ s = Dials
  /\ sock[s] = "closed"
  /\ wire[s] # << >>
  /\ \A t \in Socks \ {s} : sock[t] # "closed"
  /\ serverClaudeWs = 0

\* a send call with a command arriving now would go to connectToServerClaude
SendWouldDial == ~serverClaudeConnected

\* a connect or send call that dials arrives in this step
DialArrives ==
  \E c \in Calls : /\ call[c].pc = "idle"
                    /\ call'[c].pc = "awaitConnect"
                    /\ call'[c].psock = Dials + 1
                    /\ sock[Dials + 1] = "unused"
                    /\ sock'[Dials + 1] = "connecting"
                    /\ serverClaudeWs' = Dials + 1

\* a connect call, or a send call with a command, arrives in this step
ConnectOrSendArrives ==
  \/ ConnectArrives
  \/ response'.tool = "send" /\ call' = call /\ "command" \in DOMAIN response'.args
  \/ \E c \in Calls : call[c].pc = "idle" /\ call'[c].pc # "idle" /\ call'[c].tool = "send"

\* C14: when the socket of the current connection closes, the flag becomes
\* false and the handle is cleared; from then until the next connect or send
\* call the session is in the state in which such a call dials (for send:
\* the flag is false), and the connect or send call that arrives dials a new
\* socket.
C14_CloseThenRedial ==
  [][ /\ \A s \in Socks :
           (serverClaudeWs = s /\ sock[s] \in {"open", "errored"} /\ sock'[s] = "closed")
             => ~serverClaudeConnected' /\ serverClaudeWs' = 0
      /\ (\E s \in Socks : ClosedConnection(s)') => SendWouldDial'
      /\ ((\E s \in Socks : ClosedConnection(s)) /\ ConnectOrSendArrives) => DialArrives
    ]_vars

\* C15: the bridge dials and writes only as steps of tool calls.  A socket is
\* created only in the step in which a connect or send call arrives, one per
\* call; frames are written only in the step in which a send call starts its
\* wait, one pair per call; a call awaiting its socket never changes socket;
\* and a step in which a socket closes or errors, or a call fails, creates no
\* socket and writes nothing.
C15_NoAutomaticRetry ==
  [][ LET created == {s \in Socks : sock[s] = "unused" /\ sock'[s] # "unused"} IN
      /\ created # {}
           => /\ Cardinality(created) = 1
              /\ nEvents' = nEvents + 1
              /\ \E c \in Calls : /\ call[c].pc = "idle"
                                    /\ call'[c].pc = "awaitConnect"
                                    /\ call'[c].tool \in {"connect", "send"}
                                    /\ created = {call'[c].psock}
      /\ wire' # wire
           => \E c \in Calls : /\ call[c].pc \in {"idle", "awaitConnect"}
                                 /\ call'[c].pc = "waiting"
                                 /\ call'[c].tool = "send"
                                 /\ \E s \in Socks :
                                      /\ Len(wire'[s]) = Len(wire[s]) + 2
                                      /\ \A t \in Socks \ {s} : wire'[t] = wire[t]
      /\ \A c \in Calls :
           (call[c].pc = "awaitConnect" /\ call'[c].pc = "awaitConnect")
             => call'[c].psock = call[c].psock
      /\ \A c \in Calls : call[c].pc = "waiting" => call'[c].pc \in {"waiting", "idle"}
      /\ ((\E s \in Socks : sock'[s] \in {"errored", "closed"} /\ sock'[s] # sock[s])
          \/ response'.res.isError)
           => created = {} /\ wire' = wire
    ]_vars

\* a connect attempt timed out and its call returned the error; no second
\* socket was dialled and nothing was written
C15_Witness ==
  /\ response.res.isError
  /\ response.res.detail = "Connection timeout"
  /\ Dials = 1
  /\ sock[1] = "connecting"
  /\ \A s \in Socks : wire[s] = << >>
  /\ \A c \in Calls : call[c].pc = "idle"

\* C16: an output or status call is a pure read: the step that answers it
\* leaves the buffer, the handle, the connected flag, the sockets, what was
\* written on them and the calls in progress unchanged, and creates no
\* socket.
C16_PureReads ==
  [][ response'.tool \in {"output", "status"}
        => /\ ~response'.res.isError
           /\ serverClaudeBuffer' = serverClaudeBuffer
           /\ serverClaudeWs' = serverClaudeWs
           /\ serverClaudeConnected' = serverClaudeConnected
           /\ sock' = sock
           /\ sockPath' = sockPath
           /\ wire' = wire
           /\ call' = call
    ]_vars

\* an output call asked for the last line of a buffer of two lines: it got
\* that line, and the buffer still holds both
C16_Witness ==
  /\ response.tool = "output"
  /\ response.res.body # EmptyStr
  /\ response.res.body # serverClaudeBuffer
  /\ IsSuffixOf(response.res.body, serverClaudeBuffer)
  /\ CountChar(serverClaudeBuffer, NL) = 1

\* ------------------------------------------------ the output tool, alone
\* output.split('\n'): the elements between the newlines, in order
RECURSIVE SplitLines(_)
SplitLines(s) ==
  IF s = << >> THEN << EmptyStr >>
  ELSE LET r == SplitLines(Rest(s)) IN
       IF s[1].c = NL THEN << EmptyStr >> \o r
       ELSE << Cat(Run(s[1].c, 1), r[1]) >> \o Tail(r)

\* allLines.slice(-k) for k > 0
LastElems(ls, k) == IF k >= Len(ls) THEN ls ELSE SubSeq(ls, Len(ls) - k + 1, Len(ls))

\* .join('\n')
RECURSIVE JoinLines(_)
JoinLines(ls) ==
  IF ls = << >> THEN EmptyStr
  ELSE IF Len(ls) = 1 THEN ls[1]
  ELSE Cat(Cat(ls[1], Run(NL, 1)), JoinLines(Tail(ls)))

\* buffer contents: every text of at most MaxBufLen characters over a letter
\* and the newline, and the four-line text "a\nb\nc\nd"
TestBuffers ==
  {Lit(cs) : cs \in UNION {[1..n -> {"a", NL}] : n \in 0..MaxBufLen}}
    \cup {Lit(<<"a", NL, "b", NL, "c", NL, "d">>)}

\* arguments of the output tool: none, or a lines value
LinesArgs == {NoArgs} \cup {[lines |-> k] : k \in (-1)..MaxLines}

OutputInit ==
  /\ serverClaudeWs = 0
  /\ serverClaudeBuffer \in TestBuffers
  /\ serverClaudeConnected = FALSE
  /\ sock = [s \in Socks |-> "unused"]
  /\ sockPath = [s \in Socks |-> ""]
  /\ wire = [s \in Socks |-> << >>]
  /\ call = [c \in Calls |-> IdleCall]
  /\ response = NoResponse
  /\ appended = serverClaudeBuffer
  /\ nEvents = 0
  /\ WatcherStart
  /\ ChadStart

OutputNext == \E c \in Calls, a \in LinesArgs : CallOutput(c, a)

OutputSpec == OutputInit /\ [][OutputNext]_vars

\* C17: for every buffer and every lines argument, the output tool returns
\* the buffer split on newline, cut to its trailing `lines` elements and
\* joined with newline when lines is positive, and the buffer verbatim when
\* lines is absent, not positive, or at least the number of elements; the
\* "(buffer empty)" sentinel stands in exactly for an empty result.
C17_TrailingLines ==
  response.tool = "output" =>
    LET a == response.args
        elems == SplitLines(serverClaudeBuffer)
        result == IF "lines" \in DOMAIN a /\ a.lines > 0
                  THEN JoinLines(LastElems(elems, a.lines))
                  ELSE serverClaudeBuffer
    IN /\ ~response.res.isError
       /\ JoinLines(elems) = serverClaudeBuffer
       /\ ("lines" \in DOMAIN a /\ a.lines >= Len(elems)) => result = serverClaudeBuffer
       /\ (result = EmptyStr) <=> (response.res.text = "(buffer empty)")
       /\ (result = EmptyStr) => response.res.body = EmptyStr
       /\ (result # EmptyStr) => response.res.text = "" /\ response.res.body = result

\* the buffer "a\nb\nc\nd" read with lines = 2 gave "c\nd"
C17_Witness ==
  /\ response.tool = "output"
  /\ serverClaudeBuffer = Lit(<<"a", NL, "b", NL, "c", NL, "d">>)
  /\ "lines" \in DOMAIN response.args
  /\ response.args.lines = 2
  /\ response.res.body = Lit(<<"c", NL, "d">>)

\* C18: what a status call reports mirrors the connection: connected is
\* true exactly when the handle refers to a socket that has opened and has
\* neither closed nor errored since, and bufferSize is the buffer's length.
C18_StatusMirrors ==
  response.tool = "status" =>
    /\ response.res.connected
         <=> (serverClaudeWs # 0 /\ sock[serverClaudeWs] = "open")
    /\ response.res.bufferSize = StrLen(serverClaudeBuffer)

\* C19: chunks are appended in delivery order, none moved, none dropped as
\* a duplicate: in every reachable state the buffer is a suffix of the
\* concatenation, in delivery order, of the chunks (scrubbed payloads and raw
\* texts) appended since the last reset, and it is all of it while that
\* holds at most S_max characters.
C19_DeliveryOrder ==
  /\ IsSuffixOf(serverClaudeBuffer, appended)
  /\ StrLen(appended) <= S_max => serverClaudeBuffer = appended

\* a raw chunk and then an output chunk were delivered since the last reset:
\* the buffer holds the first followed by the second
C19_Witness ==
  /\ serverClaudeBuffer = Cat(Lit(<<ESC, "r">>), StripAnsi(Bulk))
  /\ appended = serverClaudeBuffer
  /\ serverClaudeConnected

\* sockets known to have opened
Established == {s \in Socks : sock[s] \in {"open", "errored"} \/ wire[s] # << >>}

\* the target of the latest of them, the default target when there is none
LastTarget ==
  IF Established = {} THEN DEFAULT_PROJECT
  ELSE sockPath[CHOOSE s \in Established : \A t \in Established : t <= s]

\* C20: a send that finds no live connection dials the target that was last
\* established, and the default target only when none was established.
C20_SendRedialsLastTarget ==
  [][ \A c \in Calls :
        (call[c].pc = "idle" /\ call'[c].pc = "awaitConnect" /\ call'[c].tool = "send")
          => sockPath'[call'[c].psock] = LastTarget
    ]_vars

\* C21: a send call whose command is missing or empty is answered with the
\* tagged error "command is required" and changes nothing: no socket is
\* created, the buffer is not reset, no frame is written and no wait starts.
C21_MissingCommand ==
  [][ (response'.tool = "send"
       /\ ("command" \notin DOMAIN response'.args \/ response'.args.command = ""))
        => /\ response'.res.isError
           /\ response'.res.text = "Error: "
           /\ response'.res.detail = "command is required"
           /\ serverClaudeBuffer' = serverClaudeBuffer
           /\ serverClaudeWs' = serverClaudeWs
           /\ serverClaudeConnected' = serverClaudeConnected
           /\ sock' = sock
           /\ sockPath' = sockPath
           /\ wire' = wire
           /\ call' = call
    ]_vars

\* on an open connection whose buffer holds output, a send with an empty
\* command was refused; the buffer still holds the output
C21_Witness ==
  /\ response.tool = "send"
  /\ "command" \in DOMAIN response.args
  /\ response.args.command = ""
  /\ response.res.isError
  /\ serverClaudeBuffer # EmptyStr
  /\ serverClaudeConnected
  /\ \A s \in Socks : wire[s] = << >>

\* ------------------------------------------------ the scrubber, alone
\* One send is waiting on an open connection and the remote terminal echoes
\* the command it was sent, as one output envelope.  The command ranges over
\* every text of at most MaxScrubLen characters over the characters escape
\* sequences are made of.
ScrubAlphabet == {ESC, "[", "?", "]", BEL, "0", ";", "a", NL}

ScrubInputs == {Lit(cs) : cs \in UNION {[1..n -> ScrubAlphabet] : n \in 0..MaxScrubLen}}

ScrubInit ==
  /\ serverClaudeWs = 1
  /\ serverClaudeBuffer = EmptyStr
  /\ serverClaudeConnected = TRUE
  /\ sock = [s \in Socks |-> IF s = 1 THEN "open" ELSE "unused"]
  /\ sockPath = [s \in Socks |-> IF s = 1 THEN DEFAULT_PROJECT ELSE ""]
  /\ \E t \in ScrubInputs :
       /\ wire = [s \in Socks |-> IF s = 1 THEN InputFrames(t) ELSE << >>]
       /\ call = [c \in Calls |->
                    IF c = 1 THEN [IdleCall EXCEPT !.tool = "send",
                                                   !.args = [command |-> t],
                                                   !.pc = "waiting",
                                                   !.timer = DefaultWaitMs]
                    ELSE IdleCall]
  /\ response = NoResponse
  /\ appended = EmptyStr
  /\ nEvents = MaxEvents - 1
  /\ WatcherStart
  /\ ChadStart

\* the text the waiting send wrote
Typed == wire[1][1].data

Echo == SocketMessage(1, [kind |-> "output", text |-> Typed])

ScrubNext == Echo

ScrubSpec == ScrubInit /\ [][ScrubNext]_vars

\* the echo has been delivered
Echoed == nEvents = MaxEvents

\* C22: scrubbing is idempotent: for every text over the alphabet, what the
\* scrubber made of it is left as it is by the scrubber.
C22_ScrubIdempotent ==
  /\ StripAnsi(StripAnsi(Typed)) = StripAnsi(Typed)
  /\ Echoed => StripAnsi(serverClaudeBuffer) = serverClaudeBuffer

\* a text in which a complete sequence follows a bare escape character was
\* echoed; the buffer holds nothing of either
C22_Witness ==
  /\ Echoed
  /\ Typed = Lit(<<ESC, ESC, "[", "a">>)
  /\ serverClaudeBuffer = EmptyStr

\* the characters of a text, one by one
RECURSIVE Expand(_)
Expand(s) == IF s = << >> THEN << >> ELSE << s[1].c >> \o Expand(Rest(s))

\* the index after the run of [0-9;] that starts at i
RECURSIVE ParamEnd(_, _)
ParamEnd(cs, i) == IF i <= Len(cs) /\ cs[i] \in Digits THEN ParamEnd(cs, i + 1) ELSE i

\* the index of the first BEL at or after i, 0 when there is none
RECURSIVE BelAt(_, _)
BelAt(cs, i) == IF i > Len(cs) THEN 0 ELSE IF cs[i] = BEL THEN i ELSE BelAt(cs, i + 1)

\* the index after a sequence of the kind that starts at i, 0 when none does
SeqEnd(kind, cs, i) ==
  IF cs[i] # ESC THEN 0
  ELSE IF kind = "esc" THEN i + 1
  ELSE IF i + 1 > Len(cs) THEN 0
  ELSE IF kind = "osc"
       THEN IF cs[i + 1] = "]" /\ BelAt(cs, i + 2) > 0 THEN BelAt(cs, i + 2) + 1 ELSE 0
  ELSE IF cs[i + 1] # "[" THEN 0
  ELSE LET p == IF kind = "priv"
                THEN IF i + 2 <= Len(cs) /\ cs[i + 2] = "?" THEN i + 3 ELSE 0
                ELSE i + 2
           j == IF p = 0 THEN 0 ELSE ParamEnd(cs, p)
       IN IF j > 0 /\ j <= Len(cs) /\ cs[j] \in Letters THEN j + 1 ELSE 0

\* cs from index i on, without the sequences of the kind, found left to right
RECURSIVE Without(_, _, _)
Without(kind, cs, i) ==
  IF i > Len(cs) THEN << >>
  ELSE LET e == SeqEnd(kind, cs, i)
       IN IF e > 0 THEN Without(kind, cs, e)
          ELSE << cs[i] >> \o Without(kind, cs, i + 1)

\* CSI sequences removed, then private-mode CSI sequences, then BEL-terminated
\* OSC sequences, then the escape characters that are left
Scrubbed(cs) ==
  Without("esc", Without("osc", Without("priv", Without("csi", cs, 1), 1), 1), 1)

\* a is cs with some characters left out
RECURSIVE IsSubseq(_, _)
IsSubseq(a, cs) ==
  IF a = << >> THEN TRUE
  ELSE IF cs = << >> THEN FALSE
  ELSE IF a[1] = cs[1] THEN IsSubseq(Tail(a), Tail(cs))
  ELSE IsSubseq(a, Tail(cs))

\* C23: for every text, malformed and truncated sequences included, what the
\* scrubber delivers is the text without its CSI sequences, then without its
\* private-mode CSI sequences, then without its BEL-terminated OSC sequences,
\* then without the escape characters left: it holds no escape character,
\* its characters are characters of the text in their order, and a text
\* without escape character comes through unaltered.
C23_ScrubExact ==
  Echoed =>
    LET cs == Expand(Typed)
        out == Expand(serverClaudeBuffer)
    IN /\ out = Scrubbed(cs)
       /\ \A i \in 1..Len(out) : out[i] # ESC
       /\ IsSubseq(out, cs)
       /\ (\A i \in 1..Len(cs) : cs[i] # ESC) => serverClaudeBuffer = Typed

\* a sequence cut short before its final letter was echoed: only its escape
\* character is gone
C23_Witness ==
  /\ Echoed
  /\ Typed = Lit(<<ESC, "[", "0", NL>>)
  /\ serverClaudeBuffer = Lit(<<"[", "0", NL>>)

\* --------------------------------------------- the accumulator, alone
\* An open connection with an empty buffer receives output envelopes only: a
\* long chunk, a middle-sized one and a short one, in any order.
Short == Lit(<<ESC, "[", "0", "m", "b", NL>>)
Middle == Run("y", BulkLen - 5000)

AccumMessages == [kind : {"output"}, text : {Bulk, Middle, Short}]

AccumInit ==
  /\ serverClaudeWs = 1
  /\ serverClaudeBuffer = EmptyStr
  /\ serverClaudeConnected = TRUE
  /\ sock = [s \in Socks |-> IF s = 1 THEN "open" ELSE "unused"]
  /\ sockPath = [s \in Socks |-> IF s = 1 THEN DEFAULT_PROJECT ELSE ""]
  /\ wire = [s \in Socks |-> << >>]
  /\ call = [c \in Calls |-> IdleCall]
  /\ response = NoResponse
  /\ appended = EmptyStr
  /\ nEvents = 0
  /\ WatcherStart
  /\ ChadStart

AccumNext == \E m \in AccumMessages : SocketMessage(1, m)

AccumSpec == AccumInit /\ [][AccumNext]_vars

\* C24 as stated: once the scrubbed chunks appended since the last reset
\* total more than S_max characters, the buffer is the trailing S_trunc
\* characters of their concatenation.
C24_TrailingTrunc ==
  StrLen(appended) > S_max => serverClaudeBuffer = SliceLast(appended, S_trunc)

\* C24, amended: once the scrubbed chunks appended since the last reset total
\* more than S_max characters, the buffer is a suffix of their concatenation
\* of at least S_trunc and at most S_max characters; it is exactly the
\* trailing S_trunc characters after every append that took it over S_max.
C24_TrailingSuffix ==
  [][ LET chunk == StrLen(appended') - StrLen(appended) IN
      /\ StrLen(appended') > S_max
           => /\ IsSuffixOf(serverClaudeBuffer', appended')
              /\ StrLen(serverClaudeBuffer') >= S_trunc
              /\ StrLen(serverClaudeBuffer') <= S_max
      /\ StrLen(serverClaudeBuffer) + chunk > S_max
           => serverClaudeBuffer' = SliceLast(appended', S_trunc)
      /\ StrLen(serverClaudeBuffer) + chunk <= S_max
           => StrLen(serverClaudeBuffer') = StrLen(serverClaudeBuffer) + chunk
    ]_vars

\* three long chunks took the buffer over S_max, a short one followed: the
\* buffer holds the trailing S_trunc + 2 characters
C24_Witness ==
  /\ StrLen(appended) > S_max
  /\ StrLen(serverClaudeBuffer) = S_trunc + 2
  /\ serverClaudeBuffer = SliceLast(appended, S_trunc + 2)

\* ------------------------------------------------ connect, send, read
\* The tools in their intended order: connect, the socket opens, a send,
\* output envelopes, the wait runs out, the output is read.  Payloads: a long
\* one, a short one, one made of an escape sequence only, and one longer
\* than S_max.
Blank == Lit(<<ESC, "[", "0", "m">>)
Huge == Run("z", 2 * BulkLen + 1)

EndMessages == [kind : {"output"}, text : {Bulk, Short, Blank, Huge}]

EndInit == Init

EndNext ==
  \/ \E c \in Calls : CallConnect(c, NoArgs)
  \/ \E c \in Calls : CallSend(c, [command |-> "ls"])
  \/ \E c \in Calls : CallOutput(c, NoArgs)
  \/ \E s \in Socks : SocketOpen(s)
  \/ \E s \in Socks, m \in EndMessages : SocketMessage(s, m)
  \/ \E c \in Calls : ConnectTimer(c)
  \/ \E c \in Calls : WaitTimer(c)
  \/ Tick

EndSpec == EndInit /\ [][EndNext]_vars

\* the wait of the send in slot c runs out in this step
WaitEnds(c) == call[c].pc = "waiting" /\ call'[c].pc = "idle"

\* no other reset of the buffer fell into the window of the send in slot c
OwnWindow(c) == appended = call[c].win

\* an output call without arguments answers directly after a send's result
ReadBack ==
  /\ response.tool = "send" /\ ~response.res.isError
  /\ response'.tool = "output" /\ ~Has(response'.args, "lines")

\* C25 as stated, for envelopes whose scrubbed payloads are not all empty:
\* the send's result and the output call that follows it return the same
\* text, the concatenation of the scrubbed payloads of the envelopes
\* delivered within the send's window.
C25_EndToEnd ==
  [][ /\ \A c \in Calls :
           WaitEnds(c) /\ OwnWindow(c) /\ call[c].win # EmptyStr
             => response'.res = OkBody(call[c].win)
      /\ ReadBack /\ response.res.body # EmptyStr => response'.res = response.res
    ]_vars

\* C25, amended: the send's result and the output call that follows it
\* return the same text, the concatenation of the scrubbed payloads of the
\* envelopes delivered within the send's window, when that text is not
\* empty and not longer than S_max; when it is empty each call returns its
\* own placeholder, when it is longer both return the same trailing part of
\* it, between S_trunc and S_max characters long.
C25_EndToEndBounded ==
  [][ /\ \A c \in Calls :
           WaitEnds(c) /\ OwnWindow(c) =>
             LET w == call[c].win
                 r == response'.res IN
             /\ response'.tool = "send" /\ response'.slot = c /\ ~r.isError
             /\ w # EmptyStr /\ StrLen(w) <= S_max => r = OkBody(w)
             /\ w = EmptyStr => r = SendResult(EmptyStr)
             /\ StrLen(w) > S_max
                  => /\ IsSuffixOf(r.body, w)
                     /\ StrLen(r.body) >= S_trunc /\ StrLen(r.body) <= S_max
      /\ ReadBack =>
           /\ response'.res.body = response.res.body
           /\ response.res.body # EmptyStr => response'.res = response.res
           /\ response.res.body = EmptyStr
                => response'.res = OkText("(buffer empty)", "")
    ]_vars

\* connect, open, send, one envelope, the wait has run out, and the output
\* call returns the scrubbed payload
C25_Witness ==
  /\ \A c \in Calls : call[c].pc = "idle"
  /\ sock[1] = "open" /\ sock[2] = "unused"
  /\ wire[1] = InputFrames("ls")
  /\ appended = StripAnsi(Short)
  /\ response.tool = "output"
  /\ response.res = OkBody(StripAnsi(Short))
  /\ nEvents = MaxEvents

\* ------------------------------------------------------------ the watcher
\* The history file grows by one entry; every entry is a conversation
\* message (it has a role and a content) and is named by its position.
AppendEntry ==
  /\ running
  /\ historySize < MaxHistory
  /\ historySize' = historySize + 1
  /\ UNCHANGED << conversationBuffer, lastCheckpoint, lastSize, inFlight, stored, answers,
                  backedUp, running, now, bridgeVars >>

\* one more step of the watcher on its clock
Step == running /\ now < MaxWatcherSteps /\ now' = now + 1

Range(q) == {q[i] : i \in DOMAIN q}

\* (mutant) the file is read from its beginning at every poll
Entries_FromStart(lo, hi) == [i \in 1..hi |-> i]

\* entries lo+1 .. hi in file order
Entries(lo, hi) == [i \in 1..(hi - lo) |-> lo + i]

\* the setInterval callback of watchHistoryFile: read what the file gained
\* since lastSize and buffer it; an exception of statSync or readSync is
\* caught and leaves everything as it was
PollHistory(ok) ==
  /\ Step
  /\ IF ok /\ historySize > lastSize
     THEN /\ conversationBuffer' = conversationBuffer \o Entries(lastSize, historySize)
          /\ lastSize' = historySize
     ELSE UNCHANGED << conversationBuffer, lastSize >>
  /\ UNCHANGED << lastCheckpoint, historySize, inFlight, stored, answers, backedUp, running,
                  bridgeVars >>

\* checkpoint() up to its await: nothing to do for an empty buffer, else the
\* buffer's entries go out with fetch; final tells the call made by a signal
\* handler, which ends the process when checkpoint() has returned
StartCheckpoint(final) ==
  /\ Step
  /\ IF conversationBuffer = << >>
     THEN /\ running' = ~final
          /\ UNCHANGED inFlight
     ELSE /\ Len(inFlight) < MaxFlights
          /\ inFlight' = Append(inFlight, [messages |-> conversationBuffer, final |-> final,
                                          at |-> now'])
          /\ UNCHANGED running
  /\ UNCHANGED << conversationBuffer, lastCheckpoint, lastSize, historySize, stored, answers,
                  backedUp, bridgeVars >>

\* setInterval(checkpoint, CHECKPOINT_INTERVAL_MS)
IntervalFires == StartCheckpoint(FALSE)

\* process.on('SIGINT' / 'SIGTERM', async () => { await checkpoint(); process.exit(0) })
SignalArrives == StartCheckpoint(TRUE)

\* answers of the upload: accepted (2xx), rejected (another status), failed
\* (fetch throws), and accepted with the backup file then failing to be written
Outcomes == {"ok", "rejected", "failed", "backupThrows"}

RemoveAt(q, i) == [j \in 1..(Len(q) - 1) |-> IF j < i THEN q[j] ELSE q[j + 1]]

\* the process ends after the checkpoint of a signal handler has returned; an
\* exception of writeFileSync leaves checkpoint() rejected, and the rejection
\* nobody handles ends the process or not, depending on the runtime
ExitsAfter(f, o) == IF o = "backupThrows" THEN BOOLEAN ELSE {f.final}

\* conversationBuffer = [] after a successful send
AfterSuccess(buf, sent) == << >>

\* (mutant) sendToSusan reports success whatever the answer
sendToSusan_AlwaysTrue(o) == TRUE

\* what sendToSusan returns: true for a 2xx answer, false for another status
\* and for an exception of fetch
sendToSusan(o) == o \in {"ok", "backupThrows"}

\* checkpoint() after its await: sendToSusan has settled for upload i
SendToSusanSettles(i, o) ==
  LET f == inFlight[i] IN
  /\ Step
  /\ i \in DOMAIN inFlight
  /\ inFlight' = RemoveAt(inFlight, i)
  /\ stored' = IF o \in {"ok", "backupThrows"} THEN stored \cup Range(f.messages) ELSE stored
  /\ answers' = Append(answers, [messages |-> f.messages, outcome |-> o, at |-> now'])
  /\ IF sendToSusan(o) /\ o # "backupThrows"
     THEN /\ backedUp' = backedUp \cup Range(f.messages)
          /\ conversationBuffer' = AfterSuccess(conversationBuffer, f.messages)
          /\ lastCheckpoint' = now'
     ELSE UNCHANGED << backedUp, conversationBuffer, lastCheckpoint >>
  /\ \E gone \in ExitsAfter(f, o) : running' = ~gone
  /\ UNCHANGED << lastSize, historySize, bridgeVars >>

WatcherInit == Init

WatcherNext ==
  \/ AppendEntry
  \/ \E ok \in BOOLEAN : PollHistory(ok)
  \/ IntervalFires
  \/ SignalArrives
  \/ \E i \in 1..MaxFlights, o \in Outcomes : SendToSusanSettles(i, o)

WatcherSpec == WatcherInit /\ [][WatcherNext]_vars

\* C26: while the watcher runs, every entry it has buffered is in an upload
\* the API accepted or is still in the buffer.
C26_NeverMisses ==
  running => \A m \in 1..lastSize : m \in stored \/ m \in Range(conversationBuffer)

\* C27: when the process exits, every entry that was in the buffer when a
\* signal arrived has been accepted by the API.
C27_SavedAtExit ==
  [][ running /\ ~running'
        => \A i \in DOMAIN inFlight :
             inFlight[i].final => Range(inFlight[i].messages) \subseteq stored'
    ]_vars

\* ------------------------------------------------------ the wait, alone
\* Sends with and without a waitMs argument arrive on an open connection.
WaitArgs == {[command |-> "ls"]}
            \cup {[command |-> "ls", waitMs |-> w] : w \in {0, 3000, 10000}}

WaitInit == AccumInit

WaitNext ==
  \/ \E c \in Calls, a \in WaitArgs : CallSend(c, a)
  \/ \E c \in Calls : WaitTimer(c)
  \/ Tick

WaitSpec == WaitInit /\ [][WaitNext]_vars

\* the send in slot c starts its wait in this step
WaitStarts(c) == call[c].pc # "waiting" /\ call'[c].pc = "waiting"

\* C28: the wait a send starts lasts the waitMs it was given, zero included,
\* and 5000 ms when it was given none.
C28_WaitAsSupplied ==
  [][ \A c \in Calls :
        WaitStarts(c) =>
          call'[c].timer = IF Has(call'[c].args, "waitMs") THEN call'[c].args.waitMs
                           ELSE DefaultWaitMs
    ]_vars

\* ------------------------------------------------------ overlapping sends
\* a send in another slot than c is in its wait, before and after this step
OtherWaits(c) ==
  \E d \in Calls \ {c} : call[d].pc = "waiting" /\ call'[d].pc = "waiting"

\* C29: a send that starts while another send waits empties the shared
\* buffer, discarding all the other had accumulated; a send whose wait runs
\* out returns the shared buffer as it then stands, which holds only what
\* was appended since the last reset, whichever send made it.
C29_LastWriteWins ==
  [][ \A c \in Calls :
        /\ WaitStarts(c) /\ OtherWaits(c)
             => /\ serverClaudeBuffer' = EmptyStr
                /\ call'[c].dropped = serverClaudeBuffer
                /\ appended' = EmptyStr
        /\ WaitEnds(c)
             => /\ response'.slot = c
                /\ response'.res = SendResult(serverClaudeBuffer)
                /\ IsSuffixOf(serverClaudeBuffer, appended)
                /\ StrLen(appended) <= S_max => serverClaudeBuffer = appended
    ]_vars

\* the first send's wait has run out while the second still waits: the
\* second's reset discarded a chunk the first had received, and the first
\* returns only the chunk that came after that reset
C29_Witness ==
  /\ response.tool = "send" /\ response.slot = 1 /\ ~response.res.isError
  /\ call[2].pc = "waiting" /\ call[2].tool = "send"
  /\ call[2].dropped = StripAnsi(Bulk)
  /\ response.win = Cat(StripAnsi(Bulk), StripAnsi(Bulk))
  /\ response.res = OkBody(StripAnsi(Bulk))

\* ------------------------------------------------------- a failing write
\* a send with a command arrives in slot c and finds the connected flag set,
\* so it goes straight to the write
WritesAtOnce(c) ==
  /\ nEvents' = nEvents + 1
  /\ sock' = sock
  /\ response'.tool = "send" /\ response'.slot = c
  /\ Has(response'.args, "command") /\ response'.args.command # ""
  /\ serverClaudeConnected

\* socket s opens and the send in slot c, which awaited it, goes on to the write
WritesAfterOpen(c, s) ==
  /\ sock[s] = "connecting" /\ sock'[s] = "open"
  /\ call[c].pc = "awaitConnect" /\ call[c].psock = s /\ call[c].tool = "send"

\* the ways the write can end, given the handle and the sockets before it
Throws(ws, socks) == WriteOutcomes(ws, socks) \ {"ok"}

\* the send in slot c ends in this step with transport error e: tagged, no
\* wait, nothing written, nothing dialled, the buffer empty
WriteFails(c, E) ==
  /\ response'.slot = c /\ response'.tool = "send"
  /\ \E e \in E : response'.res = ErrorResponse(e)
  /\ call'[c] = IdleCall
  /\ \A d \in Calls \ {c} : call'[d] = call[d]
  /\ wire' = wire
  /\ \A s \in Socks : sock'[s] = "connecting" => sock[s] = "connecting"
  /\ serverClaudeWs' = serverClaudeWs
  /\ serverClaudeBuffer' = EmptyStr
  /\ appended' = EmptyStr

\* C30: when the write of a send throws, the send returns the transport
\* error tagged as an error, starts no wait, writes and dials nothing more,
\* and leaves the buffer empty.
C30_WriteThrows ==
  [][ \A c \in Calls :
        /\ WritesAtOnce(c) =>
             LET E == Throws(serverClaudeWs, sock) IN
             /\ "ok" \notin WriteOutcomes(serverClaudeWs, sock) => response'.res.isError
             /\ response'.res.isError => WriteFails(c, E)
        /\ \A s \in Socks :
             WritesAfterOpen(c, s) =>
               LET E == Throws(serverClaudeWs, sock') IN
               /\ "ok" \notin WriteOutcomes(serverClaudeWs, sock') => response'.res.isError
               /\ response'.res.isError => WriteFails(c, E)
    ]_vars

\* a send found the flag set while the handle named a socket still
\* connecting: its write threw, and the chunk the buffer held is gone
C30_Witness ==
  /\ response.tool = "send"
  /\ response.res = ErrorResponse("NotOpen")
  /\ response.dropped = StripAnsi(Bulk)
  /\ serverClaudeBuffer = EmptyStr
  /\ call[response.slot].pc = "idle"
  /\ \A s \in Socks : wire[s] = << >>

\* ------------------------------------------------- flag, handle, sockets
\* C31: whenever the connected flag is set the handle names a socket.
C31_FlagImpliesHandle == serverClaudeConnected => serverClaudeWs # 0

\* socket s, created earlier and no longer the one the handle names, has an
\* open, error or close event in this step
StaleEvent(s) ==
  /\ sock[s] # "unused"
  /\ s # serverClaudeWs
  /\ sock'[s] # sock[s]

\* C32: an open, error or close event of a socket the handle no longer names
\* changes neither the connected flag nor the handle nor the buffer.
C32_StaleEventsIgnored ==
  [][ \A s \in Socks :
        StaleEvent(s) => UNCHANGED << serverClaudeConnected, serverClaudeWs,
                                      serverClaudeBuffer >>
    ]_vars

\* ------------------------------------------------- the buffer and dials
\* a socket is created in this step
Dialled == \E s \in Socks : sock[s] = "unused" /\ sock'[s] = "connecting"

\* a connect call arrives and finds a live connection
Reuses ==
  /\ nEvents' = nEvents + 1
  /\ sock' = sock
  /\ response'.tool = "connect"
  /\ LiveConnection

\* C33: a call that dials a new socket empties the buffer in the step that
\* creates the socket; a connect call that finds a live connection succeeds
\* and leaves the buffer as it was.
C33_DialEmptiesBuffer ==
  [][ /\ Dialled => serverClaudeBuffer' = EmptyStr
      /\ Reuses => /\ serverClaudeBuffer' = serverClaudeBuffer
                   /\ ~response'.res.isError
    ]_vars

\* output was readable after a disconnect; a connect dialled, which emptied
\* the buffer, and the attempt then timed out
C33_Witness ==
  /\ response.tool = "connect"
  /\ response.res = ErrorResponse("Connection timeout")
  /\ response.dropped = StripAnsi(Bulk)
  /\ serverClaudeBuffer = EmptyStr
  /\ sock = [s \in Socks |-> IF s = 1 THEN "closed" ELSE "connecting"]

\* ---------------------------------------------- the buffer and closes
\* a socket has an error or a close event in this step
Disconnects == \E s \in Socks : sock'[s] # sock[s] /\ sock'[s] \in {"errored", "closed"}

\* C34: an error or close event of a socket leaves the buffer as it was, and
\* while no connection is up the output and status calls go on returning
\* the buffer and its length.
C34_CloseKeepsBuffer ==
  [][ /\ Disconnects => serverClaudeBuffer' = serverClaudeBuffer
      /\ (~serverClaudeConnected /\ response'.tool = "output"
            /\ ~Has(response'.args, "lines"))
           => /\ serverClaudeBuffer' = serverClaudeBuffer
              /\ response'.res.body = serverClaudeBuffer
      /\ (~serverClaudeConnected /\ response'.tool = "status")
           => /\ serverClaudeBuffer' = serverClaudeBuffer
              /\ response'.res.bufferSize = StrLen(serverClaudeBuffer)
    ]_vars

\* a chunk arrived, the socket closed, and the output call still returns
\* the chunk
C34_Witness ==
  /\ response.tool = "output"
  /\ response.res = OkBody(StripAnsi(Bulk))
  /\ ~serverClaudeConnected /\ serverClaudeWs = 0
  /\ sock = [s \in Socks |-> IF s = 1 THEN "closed" ELSE "unused"]

\* ------------------------------------------------- messages of all kinds
NullFrame == Lit(<<"n", "u", "l", "l">>)
ScalarFrame == Lit(<<"7">>)
OtherFrame == Lit(<<"{", "\"", "t", "y", "p", "e", "\"", ":", "\"", "x", "\"", "}">>)
BadOutputFrame == Lit(<<"{", "\"", "t", "y", "p", "e", "\"", ":", "\"", "o", "u", "t", "p", "u", "t", "\"", ",", "\"", "d", "a", "t", "a", "\"", ":", "7", "}">>)

JsonMessages ==
  {[kind |-> "output", text |-> Short], [kind |-> "raw", text |-> Lit(<<ESC, "r">>)],
   [kind |-> "null", text |-> NullFrame], [kind |-> "scalar", text |-> ScalarFrame],
   [kind |-> "other", text |-> OtherFrame], [kind |-> "badOutput", text |-> BadOutputFrame]}

JsonInit == AccumInit

JsonNext == \E m \in JsonMessages : SocketMessage(1, m)

JsonSpec == JsonInit /\ [][JsonNext]_vars

\* C35: a JSON message that is no output envelope changes neither the buffer
\* nor the connection state; an output envelope with text data is scrubbed
\* and appended; the JSON null and an output envelope whose data is not text
\* are appended as they came, like a message that is not JSON.
C35_OnlyEnvelopesAppended ==
  [][ \A m \in JsonMessages :
        SocketMessage(1, m) =>
          /\ UNCHANGED << serverClaudeWs, serverClaudeConnected, sock, wire >>
          /\ m.kind \in {"other", "scalar"} => serverClaudeBuffer' = serverClaudeBuffer
          /\ m.kind = "output"
               => LET t == Cat(serverClaudeBuffer, StripAnsi(m.text)) IN
                  serverClaudeBuffer' = IF StrLen(t) > S_max THEN SliceLast(t, S_trunc) ELSE t
          /\ m.kind \in {"null", "badOutput", "raw"}
               => serverClaudeBuffer' = Cat(serverClaudeBuffer, m.text)
    ]_vars

\* two messages came: the JSON null, appended as it came, and one that
\* changed nothing
C35_Witness ==
  /\ nEvents = 2
  /\ serverClaudeBuffer = NullFrame

\* ------------------------------------------------- checkpoints, one by one
\* an upload is answered in this step
Settled == Len(answers') = Len(answers) + 1

\* an upload goes out in this step
Uploads == Len(inFlight') = Len(inFlight) + 1

\* C36: a checkpoint empties the buffer, writes the backup and advances
\* lastCheckpoint only when its upload was accepted; an upload that failed or
\* was rejected leaves all three as they were, so that the next checkpoint
\* sends the buffer again; a checkpoint that finds the buffer empty uploads
\* nothing.
C36_CheckpointOnSuccessOnly ==
  [][ LET a == answers'[Len(answers')] IN
      /\ (Settled /\ a.outcome \in {"rejected", "failed"})
           => UNCHANGED << conversationBuffer, backedUp, lastCheckpoint >>
      /\ (Settled /\ ( \/ conversationBuffer' # conversationBuffer
                       \/ backedUp' # backedUp
                       \/ lastCheckpoint' # lastCheckpoint ))
           => a.outcome = "ok"
      /\ (Settled /\ a.outcome = "ok")
           => /\ conversationBuffer' = << >>
              /\ Range(a.messages) \subseteq backedUp'
              /\ lastCheckpoint' = now'
      /\ Uploads => /\ conversationBuffer # << >>
                    /\ inFlight'[Len(inFlight')].messages = conversationBuffer
      /\ conversationBuffer = << >> => ~Uploads
    ]_vars

\* an upload of the one buffered entry failed; the buffer still holds the
\* entry and the next checkpoint has sent it again
C36_Witness ==
  /\ running
  /\ Len(answers) = 1 /\ answers[1].outcome = "failed" /\ answers[1].messages = << 1 >>
  /\ conversationBuffer = << 1 >>
  /\ Len(inFlight) = 1 /\ inFlight[1].messages = << 1 >>
  /\ inFlight[1].at > answers[1].at
  /\ backedUp = {} /\ lastCheckpoint = 0

\* ---------------------------------------------------- the read offset
\* C37: while the history file only grows, lastSize never decreases; when it
\* advances it advances to the size the file has in that poll, and what the
\* poll buffered is exactly the range from the old offset to the new one, in
\* file order; nothing is buffered without the offset advancing, so a poll
\* that failed leaves the range to the next one.
C37_ReadsOnce ==
  [][ /\ lastSize' >= lastSize
      /\ lastSize' <= historySize
      /\ lastSize' > lastSize
           => /\ lastSize' = historySize
              /\ conversationBuffer' =
                   conversationBuffer \o [i \in 1..(lastSize' - lastSize) |-> lastSize + i]
      /\ lastSize' = lastSize
           => \/ conversationBuffer' = conversationBuffer
              \/ Settled /\ conversationBuffer' = << >>
    ]_vars

\* two polls read two ranges, one after the other: the upload started in
\* between carries the first entry only, the buffer holds both, each once
C37_Witness ==
  /\ lastSize = 2 /\ historySize = 2
  /\ conversationBuffer = << 1, 2 >>
  /\ Len(inFlight) = 1 /\ inFlight[1].messages = << 1 >>
  /\ answers = << >>

\* ------------------------------------------------- the logging relay
\* one more input to the compact server: a tool call or a relay event
ChadEvent == nEvents < MaxEvents /\ nEvents' = nEvents + 1 /\ UNCHANGED watcherVars

terminalVars == << serverClaudeWs, serverClaudeBuffer, serverClaudeConnected, sock,
                   sockPath, wire, call, appended >>

\* connectToChad(), called by main() and by the timer the close handler sets
ConnectToChad ==
  /\ ChadEvent
  /\ chadRetry
  /\ chadRetry' = FALSE
  /\ chadWs' = IF chadWs # "null" /\ chadConnected THEN chadWs ELSE "connecting"
  /\ response' = NoResponse
  /\ UNCHANGED << chadConnected, chadFrames, terminalVars >>

\* chadWs.on('open', ...)
ChadOpen ==
  /\ ChadEvent
  /\ chadWs = "connecting"
  /\ chadWs' = "open"
  /\ chadConnected' = TRUE
  /\ response' = NoResponse
  /\ UNCHANGED << chadRetry, chadFrames, terminalVars >>

\* chadWs.on('error', ...); the socket is on its way to 'close'
ChadError ==
  /\ ChadEvent
  /\ chadWs \in {"connecting", "open"}
  /\ chadWs' = "closing"
  /\ chadConnected' = FALSE
  /\ response' = NoResponse
  /\ UNCHANGED << chadRetry, chadFrames, terminalVars >>

\* the relay starts the closing handshake: the socket is CLOSING, no event yet
ChadClosing ==
  /\ ChadEvent
  /\ chadWs = "open"
  /\ chadWs' = "closing"
  /\ response' = NoResponse
  /\ UNCHANGED << chadConnected, chadRetry, chadFrames, terminalVars >>

\* chadWs.on('close', ...): flag off, handle null, connectToChad in 5 seconds
ChadClose ==
  /\ ChadEvent
  /\ chadWs = "closing"
  /\ chadWs' = "null"
  /\ chadConnected' = FALSE
  /\ chadRetry' = TRUE
  /\ response' = NoResponse
  /\ UNCHANGED << chadFrames, terminalVars >>

\* what chadWs.send() does in each state of the socket: an OPEN socket takes
\* the frame; on a CLOSING one the library throws or discards the frame,
\* depending on its version; on a CONNECTING one it throws
SendFates(ws) ==
  CASE ws = "open" -> {"sent"}
    [] ws = "closing" -> {"discarded", "thrown"}
    [] OTHER -> {"thrown"}

\* (mutant) the send is not wrapped in try/catch
logToChad_NoCatch(frames, ws, connected, role, fate) ==
  IF ws = "null" \/ ~connected THEN [frames |-> frames, threw |-> FALSE]
  ELSE [frames |-> Append(frames, [role |-> role, fate |-> fate]),
        threw |-> fate = "thrown"]

\* logToChad(role, content): return without a usable relay, else send inside
\* try { } catch (e) {}
logToChad(frames, ws, connected, role, fate) ==
  IF ws = "null" \/ ~connected THEN [frames |-> frames, threw |-> FALSE]
  ELSE [frames |-> Append(frames, [role |-> role, fate |-> fate]), threw |-> FALSE]

\* tools of the compact server that answer without waiting
ChadTools == {"server_claude_status", "server_claude_output", "server_claude_send",
              "bogus_tool"}

\* the switch of the compact server's handler, called with empty arguments:
\* what the case returns, or the message of what it throws
Body(name) ==
  CASE name = "server_claude_status"
         -> [threw |-> FALSE, message |-> "",
             res |-> [isError |-> FALSE, text |-> "status", detail |-> "", body |-> EmptyStr,
                      connected |-> serverClaudeConnected,
                      bufferSize |-> StrLen(serverClaudeBuffer)]]
    [] name = "server_claude_output"
         -> [threw |-> FALSE, message |-> "",
             res |-> IF serverClaudeBuffer = EmptyStr THEN OkText("(empty)", "")
                     ELSE OkBody(serverClaudeBuffer)]
    [] name = "server_claude_send"
         -> [threw |-> TRUE, message |-> "command required", res |-> OkText("", "")]
    [] OTHER
         -> [threw |-> TRUE, message |-> "Unknown tool: bogus_tool", res |-> OkText("", "")]

\* the request handler rejects: the exception left it
Rejected == [isError |-> TRUE, text |-> "rejected", detail |-> "", body |-> EmptyStr]

\* server.setRequestHandler(CallToolRequestSchema, ...): log the call, run
\* the case, and in the catch log the error and return it tagged
ChadTool(name, f1, f2) ==
  LET l1 == logToChad(chadFrames, chadWs, chadConnected, "system", f1)
      b == Body(name)
      l2 == logToChad(l1.frames, chadWs, chadConnected, "error", f2)
      answer(r) == [slot |-> 1, tool |-> name, args |-> NoArgs, dropped |-> EmptyStr,
                    win |-> EmptyStr, res |-> r]
  IN
  /\ ChadEvent
  /\ f1 \in SendFates(chadWs) /\ f2 \in SendFates(chadWs)
  /\ IF l1.threw
     THEN /\ chadFrames' = l1.frames
          /\ response' = answer(Rejected)
     ELSE IF ~b.threw
     THEN /\ chadFrames' = l1.frames
          /\ response' = answer(b.res)
     ELSE /\ chadFrames' = l2.frames
          /\ response' = answer(IF l2.threw THEN Rejected ELSE ErrorResponse(b.message))
  /\ UNCHANGED << chadWs, chadConnected, chadRetry, terminalVars >>

\* output arrives on the terminal session
TerminalOutput == SocketMessage(1, [kind |-> "output", text |-> Short])

ChadInit == AccumInit

ChadNext ==
  \/ ConnectToChad
  \/ ChadOpen
  \/ ChadError
  \/ ChadClosing
  \/ ChadClose
  \/ \E name \in ChadTools, f1, f2 \in {"sent", "discarded", "thrown"} : ChadTool(name, f1, f2)
  \/ TerminalOutput

ChadSpec == ChadInit /\ [][ChadNext]_vars

\* what the tool returns when nothing is logged
Unlogged(name) ==
  CASE name = "server_claude_status"
         -> [isError |-> FALSE, text |-> "status", detail |-> "", body |-> EmptyStr,
             connected |-> serverClaudeConnected, bufferSize |-> StrLen(serverClaudeBuffer)]
    [] name = "server_claude_output"
         -> IF serverClaudeBuffer = EmptyStr THEN OkText("(empty)", "")
            ELSE OkBody(serverClaudeBuffer)
    [] name = "server_claude_send" -> ErrorResponse("command required")
    [] OTHER -> ErrorResponse("Unknown tool: bogus_tool")

====
